---- MODULE Spec2Model ----
(***************************************************************************)
(* A model of scraper.py: the classification of the links of an article's  *)
(* evidence paragraphs, the location of the article body, and the two      *)
(* counting passes of main().                                              *)
(*                                                                         *)
(* A Python str is a sequence of one-character strings; None is the        *)
(* one-element sequence <<"None">>, which no str equals.                   *)
(***************************************************************************)
EXTENDS Integers, Sequences, FiniteSets, TLC

VARIABLES
    \* main()
    pc, a_urls, articles, i, no_examples_articles, fnns, fnw_names_freq,
    ranks, needles, no_examples_articles_as_sets, from_inverse_search,
    articles_we_found_nothing, ranks_with_inverse,
    \* history of main(): the pages download_page returned, the tokens each
    \* article appended to fnns, the value of we_found_something at the end of
    \* each iteration, the run number and the table each run had after its
    \* direct pass
    pages, contrib, found, run, direct_tables,
    \* Article._filter_link
    lk_pc, lk_link, lk_check_href, lk_token,
    \* Article._focus_on_article
    loc_pc, loc_raw, loc_article

mainVars == <<pc, a_urls, articles, i, no_examples_articles, fnns,
              fnw_names_freq, ranks, needles, no_examples_articles_as_sets,
              from_inverse_search, articles_we_found_nothing,
              ranks_with_inverse, pages, contrib, found, run, direct_tables>>
linkVars == <<lk_pc, lk_link, lk_check_href, lk_token>>
locVars == <<loc_pc, loc_raw, loc_article>>
vars == <<mainVars, linkVars, locVars>>

----------------------------------------------------------------------------
(* Bounds of the model *)

\* articles in the corpus
MaxArticles == 2
\* elements of a raw document handed to _focus_on_article
MaxElems == 2
\* the rank cutoff of most_common(20), scaled to the names of the model
TopK == 2

----------------------------------------------------------------------------
(* Python values *)

None == <<"None">>

Min(a, b) == IF a < b THEN a ELSE b

Range(s) == {s[k] : k \in 1..Len(s)}

\* the characters str.strip() removes
Whitespace == {" ", "\n", "\t"}

\* needle occurs in s at position p (1-based)
OccursAt(s, needle, p) ==
    /\ p + Len(needle) - 1 <= Len(s)
    /\ \A k \in 1..Len(needle) : s[p + k - 1] = needle[k]

\* needle in s
Contains(s, needle) == \E p \in 1..(Len(s) + 1) : OccursAt(s, needle, p)

\* s.startswith(needle)
StartsWith(s, needle) == OccursAt(s, needle, 1)

RECURSIVE LStrip(_)
LStrip(s) ==
    IF s = << >> THEN s
    ELSE IF Head(s) \in Whitespace THEN LStrip(Tail(s)) ELSE s

RECURSIVE RStrip(_)
RStrip(s) ==
    IF s = << >> THEN s
    ELSE IF s[Len(s)] \in Whitespace THEN RStrip(SubSeq(s, 1, Len(s) - 1)) ELSE s

\* s.strip()
Strip(s) == RStrip(LStrip(s))

\* s.split(sep) for a one-character sep: the pieces between the occurrences
\* of sep, empty ones included
Split(s, sep) ==
    LET at == {p \in 1..Len(s) : s[p] = sep}
        nth(k) == CHOOSE p \in at : Cardinality({q \in at : q <= p}) = k
        n == Cardinality(at) + 1
    IN  [k \in 1..n |->
            SubSeq(s, IF k = 1 THEN 1 ELSE nth(k - 1) + 1,
                      IF k = n THEN Len(s) ELSE nth(k) - 1)]

RECURSIVE Concat(_)
\* "".join(ss)
Concat(ss) == IF ss = << >> THEN << >> ELSE Head(ss) \o Concat(Tail(ss))

\* filter(None, fnns): None and the empty str are falsy
FilterNone(S) == S \ {None, << >>}

----------------------------------------------------------------------------
(* Article._filter_link *)

is_irrelevant_url_needles ==
    { <<"h","t","t","p","s",":","/","/","a","r","c","h","i","v","e">>, <<"h","t","t","p","s",":","/","/","p","e","r","m","a">>, <<"a","r","c","h","i","v","e",".","o","r","g">>, <<"h","e","a","l","t","h",".","g","o","v">>,
      <<"e","l","l","i","n","i","k","a","h","o","a","x","e","s",".","g","r">>, <<"b","i","t",".","l","y">>, <<"f","a","c","e","b","o","o","k",".","c","o","m">>, <<"t","w","i","t","t","e","r",".","c","o","m">>,
      <<"y","o","u","t","u","b","e",".","c","o","m">> }

is_irrelevant_url(url) ==
    \E needle \in is_irrelevant_url_needles : Contains(url, needle)

\* the characters the class [α-ωΑ-Ω] matches: U+03B1..U+03C9, U+0391..U+03A9
GreekClass ==
    { "α","β","γ","δ","ε","ζ","η","θ","ι","κ","λ","μ","ν","ξ","ο","π","ρ",
      "ς","σ","τ","υ","φ","χ","ψ","ω",
      "Α","Β","Γ","Δ","Ε","Ζ","Η","Θ","Ι","Κ","Λ","Μ","Ν","Ξ","Ο","Π","Ρ",
      "Σ","Τ","Υ","Φ","Χ","Ψ","Ω" }

should_check_needles ==
    { <<"1">>, <<"2">>, <<"3">>, <<"4">>, <<",">>, <<"#">>, <<"f","a","c","e","b","o","o","k">>, <<"F","a","c","e","b","o","o","k">>,
      <<"T","w","i","t","t","e","r">>, <<"t","w","i","t","t","e","r">>, <<"t","w","i","t","t","e","r",".","c","o","m">>, <<"Y","o","u","T","u","b","e">> }

should_check_href_instead_of_data(data) ==
    IF (\E k \in 1..Len(data) : data[k] \in GreekClass) \/ Contains(data, <<" ">>)
    THEN TRUE
    ELSE \E needle \in should_check_needles : StartsWith(data, needle)

\* a wrong index: the piece before the host
HostOfHrefOffByOne(href) ==
    LET parts == Split(href, "/")
    IN  IF Len(parts) >= 2 THEN parts[2] ELSE None

\* link["href"].split("/")[2:3][0], None after the IndexError is logged
HostOfHref(href) ==
    LET parts == Split(href, "/")
    IN  IF Len(parts) >= 3 THEN parts[3] ELSE None

filter_link(link) ==
    IF link.string = None \/ link.string = << >> THEN None
    ELSE LET tag_data == Strip(link.string)
             check_href == should_check_href_instead_of_data(tag_data)
         IN  IF check_href
             THEN IF is_irrelevant_url(link.href) THEN None
                  ELSE HostOfHref(link.href)
             ELSE tag_data

----------------------------------------------------------------------------
(* The parsed document.  A raw document is the sequence of its elements in  *)
(* document order; an element has a name, an id (None when it has no id     *)
(* attribute) and its children: text nodes and <p> paragraphs, whose own    *)
(* children are text nodes and <a> anchors.                                 *)

Text(s) == [name |-> <<"#","t","e","x","t">>, s |-> s]
Anchor(string, href) == [name |-> <<"a">>, string |-> string, href |-> href]
Para(kids) == [name |-> <<"p">>, kids |-> kids]
Element(name, id, kids) == [name |-> name, id |-> id, kids |-> kids]

IsText(n) == n.name = <<"#","t","e","x","t">>

\* re.compile("post-*").search(value): "post", then any number of "-",
\* starting anywhere in value
RegexSearchPost(value) ==
    \E p \in 1..Len(value) :
        /\ OccursAt(value, <<"p","o","s","t">>, p)
        /\ \E k \in 0..Len(value) :
              \A j \in 1..k : p + 3 + j <= Len(value) /\ value[p + 3 + j] = "-"

IsArticleDiv(e) == e.name = <<"d","i","v">> /\ e.id # None /\ RegexSearchPost(e.id)

\* the None that find returns where a Tag is expected
NoTag == [none |-> TRUE]

\* raw.find("div", attrs={"id": re.compile("post-*")}): the first match in
\* document order, None when there is none
focus_on_article(raw) ==
    IF \E k \in 1..Len(raw) : IsArticleDiv(raw[k])
    THEN raw[CHOOSE k \in 1..Len(raw) :
                 IsArticleDiv(raw[k]) /\ \A j \in 1..(k - 1) : ~IsArticleDiv(raw[j])]
    ELSE NoTag

\* the visible text of a child of a paragraph
InlineText(n) ==
    IF IsText(n) THEN n.s ELSE IF n.string = None THEN << >> ELSE n.string

\* t.text of a paragraph
ParaText(t) == Concat([k \in 1..Len(t.kids) |-> InlineText(t.kids[k])])

examples_needles ==
    { <<"Π","α","ρ","α","δ","ε","ί","γ","μ","α","τ","α",":">>, <<"Π","α","ρ","ά","δ","ε","ι","γ","μ","α",":">>, <<"Τ","ο"," ","ε","ί","δ","α","μ","ε"," ","σ","τ","α">>, <<"σ","ε"," ","ι","σ","τ","ο","σ","ε","λ","ί","δ","ε","ς"," ","ό","π","ω","ς">> }

keep_articles_that_have_examples(t) ==
    /\ t.name = <<"p">>
    /\ \E needle \in examples_needles : Contains(ParaText(t), needle)

find_all_examples(tag) == SelectSeq(tag.kids, keep_articles_that_have_examples)

\* what calling .find_all on None raises
AttributeError == [raises |-> "AttributeError"]

Article(url, examples, bs_source) ==
    [url |-> url, examples |-> examples, bs_source |-> bs_source]

\* Article.from_raw: tag.find_all raises when _focus_on_article found nothing
from_raw(url, raw) ==
    LET article == focus_on_article(raw)
    IN  IF article = NoTag THEN AttributeError
        ELSE Article(url, find_all_examples(article), article)

\* a wrong comparison: one evidence paragraph is not enough
has_examples_strict(self) == Len(self.examples) > 1

has_examples(self) == Len(self.examples) > 0

HasHref(n) == n.name = <<"a">> /\ n.href # None

\* example.find_all("a", attrs={"href": True}) over the examples, in order
find_all_links_in_examples(self) ==
    Concat([k \in 1..Len(self.examples) |-> SelectSeq(self.examples[k].kids, HasHref)])

unique_fnns_in_examples(self) ==
    FilterNone({filter_link(link) : link \in Range(find_all_links_in_examples(self))})

----------------------------------------------------------------------------
(* str(article): the dataclass repr, the markup of the body included *)

RenderInline(n) ==
    IF IsText(n) THEN n.s
    ELSE <<"<","a">> \o (IF n.href = None THEN << >> ELSE <<" ","h","r","e","f","=","\"">> \o n.href \o <<"\"">>)
         \o <<">">> \o InlineText(n) \o <<"<","/","a",">">>

RenderNode(n) ==
    IF IsText(n) THEN n.s
    ELSE <<"<","p",">">> \o Concat([k \in 1..Len(n.kids) |-> RenderInline(n.kids[k])]) \o <<"<","/","p",">">>

RenderElement(e) ==
    <<"<">> \o e.name \o (IF e.id = None THEN << >> ELSE <<" ","i","d","=","\"">> \o e.id \o <<"\"">>)
    \o <<">">> \o Concat([k \in 1..Len(e.kids) |-> RenderNode(e.kids[k])])
    \o <<"<","/">> \o e.name \o <<">">>

RECURSIVE JoinComma(_)
\* ", ".join(ss)
JoinComma(ss) ==
    IF ss = << >> THEN << >>
    ELSE IF Len(ss) = 1 THEN Head(ss)
    ELSE Head(ss) \o <<","," ">> \o JoinComma(Tail(ss))

StrOfArticle(self) ==
    <<"A","r","t","i","c","l","e","(","u","r","l","=","'">> \o self.url \o <<"'",","," ","e","x","a","m","p","l","e","s","=","[">>
    \o JoinComma([k \in 1..Len(self.examples) |-> RenderNode(self.examples[k])])
    \o <<"]",","," ","b","s","_","s","o","u","r","c","e","=">> \o RenderElement(self.bs_source) \o <<")">>

\* set(str(no_examples_article).split(" "))
AsSetOfWords(self) == Range(Split(StrOfArticle(self), " "))

----------------------------------------------------------------------------
(* merge_similar_fnns, Counter *)

similar_names ==
    ( <<"p","r","o","-","n","e","w","s",".","g","r">> :> <<"p","r","o","n","e","w","s",".","g","r">> ) @@ ( <<"p","r","o","n","e","w","s">> :> <<"p","r","o","n","e","w","s",".","g","r">> )

merge_similar_fnns(list) ==
    [k \in 1..Len(list) |->
        IF list[k] \in DOMAIN similar_names THEN similar_names[list[k]] ELSE list[k]]

\* A Counter (and a defaultdict(int)) is the sequence of its <<key, count>>
\* items in insertion order.
Keys(c) == [k \in 1..Len(c) |-> c[k][1]]

CountOf(c, name) ==
    IF \E k \in 1..Len(c) : c[k][1] = name
    THEN c[CHOOSE k \in 1..Len(c) : c[k][1] = name][2]
    ELSE 0

\* c[name] += n
CounterAdd(c, name, n) ==
    IF \E k \in 1..Len(c) : c[k][1] = name
    THEN [k \in 1..Len(c) |-> IF c[k][1] = name THEN <<name, c[k][2] + n>> ELSE c[k]]
    ELSE Append(c, <<name, n>>)

RECURSIVE CounterFold(_, _)
CounterFold(c, list) ==
    IF list = << >> THEN c ELSE CounterFold(CounterAdd(c, Head(list), 1), Tail(list))

RECURSIVE CounterUpdate(_, _)
\* c.update(other)
CounterUpdate(c, other) ==
    IF other = << >> THEN c
    ELSE CounterUpdate(CounterAdd(c, Head(other)[1], Head(other)[2]), Tail(other))

\* an unstable order: item goes before the items of equal count
InsertBeforeEqual(sorted, item) ==
    LET before == Cardinality({k \in 1..Len(sorted) : sorted[k][2] > item[2]})
    IN  SubSeq(sorted, 1, before) \o <<item>> \o SubSeq(sorted, before + 1, Len(sorted))

\* item goes after every item whose count is at least its own
InsertByCount(sorted, item) ==
    LET before == Cardinality({k \in 1..Len(sorted) : sorted[k][2] >= item[2]})
    IN  SubSeq(sorted, 1, before) \o <<item>> \o SubSeq(sorted, before + 1, Len(sorted))

RECURSIVE SortedByCount(_, _)
SortedByCount(sorted, items) ==
    IF items = << >> THEN sorted
    ELSE SortedByCount(InsertByCount(sorted, Head(items)), Tail(items))

\* c.most_common(n): sorted(c.items(), key=count, reverse=True)[:n]
most_common(c, n) ==
    LET sorted == SortedByCount(<< >>, c)
    IN  SubSeq(sorted, 1, Min(n, Len(sorted)))

\* the table rebuilt from its own top ranks
CounterOfTopRanked(list) == most_common(CounterFold(<< >>, list), TopK)

\* Counter(list)
CounterOf(list) == CounterFold(<< >>, list)

\* needles seeded with the canonical names of the alias table
NeedlesWithCanonicalNames(c) ==
    Keys(c) \o [k \in 1..1 |-> similar_names[<<"p","r","o","n","e","w","s">>]]

\* fnw_names_freq.keys(): every name of the table, in insertion order
NeedlesOf(c) == Keys(c)

----------------------------------------------------------------------------
(* Inputs: the documents download_page may return *)

Url == <<"h","t","t","p","s",":","/","/","w","w","w",".","e","l","l","i","n","i","k","a","h","o","a","x","e","s",".","g","r","/","a">>

L_pronews == Anchor(<<"p","r","o","n","e","w","s",".","g","r">>, <<"h","t","t","p",":","/","/","p","r","o","n","e","w","s",".","g","r","/","1">>)
L_pro_news == Anchor(<<"p","r","o","-","n","e","w","s",".","g","r">>, <<"h","t","t","p",":","/","/","p","r","o","-","n","e","w","s",".","g","r","/","2">>)
L_katohika == Anchor(<<"π","η","γ","ή">>, <<"h","t","t","p","s",":","/","/","k","a","t","o","h","i","k","a",".","g","r","/","s","o","m","e","/","a","r","t","i","c","l","e">>)
L_archive == Anchor(<<"1">>, <<"h","t","t","p","s",":","/","/","w","e","b",".","a","r","c","h","i","v","e",".","o","r","g","/","x">>)
L_short == Anchor(<<"2">>, <<"x">>)
L_b == Anchor(<<"b",".","g","r">>, <<"h","t","t","p",":","/","/","b",".","g","r","/">>)
L_nohref == Anchor(<<"c",".","g","r">>, None)

Header == Element(<<"d","i","v">>, <<"h","e","a","d","e","r">>, << >>)
Page(kids) == <<Header, Element(<<"d","i","v">>, <<"p","o","s","t","-","1">>, kids)>>

RawPool ==
    { \* no article body
      <<Header>>,
      \* one evidence paragraph linking the same outlet twice
      Page(<<Para(<<Text(<<"Π","α","ρ","ά","δ","ε","ι","γ","μ","α",":"," ">>), L_pronews, Text(<<" ">>), L_pronews>>)>>),
      \* two evidence paragraphs, one alias each
      Page(<<Para(<<Text(<<"Π","α","ρ","α","δ","ε","ί","γ","μ","α","τ","α",":"," ">>), L_pro_news>>),
             Para(<<Text(<<"Τ","ο"," ","ε","ί","δ","α","μ","ε"," ","σ","τ","α"," ">>), L_pronews>>)>>),
      \* an evidence paragraph with an archive link and a malformed href only
      Page(<<Para(<<Text(<<"Π","α","ρ","ά","δ","ε","ι","γ","μ","α",":"," ">>), L_archive, L_short>>)>>),
      \* three outlets
      Page(<<Para(<<Text(<<"σ","ε"," ","ι","σ","τ","ο","σ","ε","λ","ί","δ","ε","ς"," ","ό","π","ω","ς"," ">>), L_katohika, L_b, L_pronews>>)>>),
      \* one outlet, and an anchor without href
      Page(<<Text(<<"i","n","t","r","o"," ">>), Para(<<Text(<<"Π","α","ρ","ά","δ","ε","ι","γ","μ","α",":"," ">>), L_b, L_nohref>>)>>),
      \* no evidence paragraph: a name between tags
      Page(<<Para(<<Text(<<"p","r","o","n","e","w","s",".","g","r">>)>>)>>),
      \* no evidence paragraph: names between spaces
      Page(<<Para(<<Text(<<"s","e","e"," ","p","r","o","n","e","w","s",".","g","r"," ","h","e","r","e">>)>>)>>),
      Page(<<Text(<<"f","r","o","m"," ","b",".","g","r"," ","a","n","d","\n","p","r","o","n","e","w","s",".","g","r"," ","t","o","o">>)>>),
      \* no evidence paragraph, no name
      Page(<<Para(<<Text(<<"n","o","t","h","i","n","g"," ","h","e","r","e">>), L_katohika>>)>>) }

----------------------------------------------------------------------------
(* main() *)

MainIdle ==
    /\ pc = "idle" /\ a_urls = << >> /\ articles = << >> /\ i = 1
    /\ no_examples_articles = << >> /\ fnns = << >> /\ fnw_names_freq = << >>
    /\ ranks = << >> /\ needles = << >> /\ no_examples_articles_as_sets = << >>
    /\ from_inverse_search = << >> /\ articles_we_found_nothing = << >>
    /\ ranks_with_inverse = << >> /\ contrib = << >> /\ found = << >>
    /\ run = 1 /\ direct_tables = << >> /\ pages = << >>

MainInit ==
    /\ pc = "download"
    /\ a_urls \in {[k \in 1..n |-> Url] : n \in 0..MaxArticles}
    /\ articles = << >> /\ i = 1
    /\ no_examples_articles = << >> /\ fnns = << >> /\ fnw_names_freq = << >>
    /\ ranks = << >> /\ needles = << >> /\ no_examples_articles_as_sets = << >>
    /\ from_inverse_search = << >> /\ articles_we_found_nothing = << >>
    /\ ranks_with_inverse = << >> /\ contrib = << >> /\ found = << >>
    /\ run = 1 /\ direct_tables = << >> /\ pages = << >>

\* the sequences that list the set S once each: the orders a set iterates in
Orders(S) == {s \in [1..Cardinality(S) -> S] : Range(s) = S}

\* lines 247-249: one iteration of the download loop
Download ==
    /\ pc = "download"
    /\ Len(articles) < Len(a_urls)
    /\ \E raw \in RawPool :
          LET article == from_raw(a_urls[Len(articles) + 1], raw)
          IN  /\ pages' = Append(pages, raw)
              /\ IF article = AttributeError
                 THEN pc' = "crashed" /\ UNCHANGED articles
                 ELSE articles' = Append(articles, article) /\ UNCHANGED pc
    /\ UNCHANGED <<a_urls, i, no_examples_articles, fnns, fnw_names_freq, ranks,
                   needles, no_examples_articles_as_sets, from_inverse_search,
                   articles_we_found_nothing, ranks_with_inverse, contrib, found,
                   run, direct_tables>>
    /\ UNCHANGED <<linkVars, locVars>>

\* lines 251-264: the articles are stored, loaded back, and the lists start empty
LoadArticles ==
    /\ pc = "download"
    /\ Len(articles) = Len(a_urls)
    /\ pc' = "direct" /\ i' = 1
    /\ no_examples_articles' = << >> /\ fnns' = << >>
    /\ UNCHANGED <<pages, a_urls, articles, fnw_names_freq, ranks, needles,
                   no_examples_articles_as_sets, from_inverse_search,
                   articles_we_found_nothing, ranks_with_inverse, contrib, found,
                   run, direct_tables>>
    /\ UNCHANGED <<linkVars, locVars>>

\* lines 265-270: one iteration of the direct pass
DirectStep ==
    /\ pc = "direct"
    /\ i <= Len(articles)
    /\ IF ~has_examples(articles[i])
       THEN /\ no_examples_articles' = Append(no_examples_articles, articles[i])
            /\ contrib' = Append(contrib, << >>)
            /\ UNCHANGED fnns
       ELSE \E order \in Orders(unique_fnns_in_examples(articles[i])) :
               /\ fnns' = fnns \o order
               /\ contrib' = Append(contrib, order)
               /\ UNCHANGED no_examples_articles
    /\ i' = i + 1
    /\ UNCHANGED <<pc, pages, a_urls, articles, fnw_names_freq, ranks, needles,
                   no_examples_articles_as_sets, from_inverse_search,
                   articles_we_found_nothing, ranks_with_inverse, found, run,
                   direct_tables>>
    /\ UNCHANGED <<linkVars, locVars>>

\* lines 272-292: merge, count, rank, and prepare the inverse search
CountAndRank ==
    /\ pc = "direct"
    /\ i > Len(articles)
    /\ fnns' = merge_similar_fnns(fnns)
    /\ fnw_names_freq' = CounterOf(fnns')
    /\ ranks' = most_common(fnw_names_freq', TopK)
    /\ needles' = NeedlesOf(fnw_names_freq')
    /\ from_inverse_search' = << >>
    /\ articles_we_found_nothing' = << >>
    /\ no_examples_articles_as_sets' =
          [k \in 1..Len(no_examples_articles) |-> AsSetOfWords(no_examples_articles[k])]
    /\ direct_tables' = Append(direct_tables, fnw_names_freq')
    /\ pc' = "inverse" /\ i' = 1
    /\ UNCHANGED <<pages, a_urls, articles, no_examples_articles, ranks_with_inverse,
                   contrib, found, run>>
    /\ UNCHANGED <<linkVars, locVars>>

RECURSIVE SearchNeedles(_, _, _)
\* lines 297-300: the inner loop over the needles
SearchNeedles(dict, keys, words) ==
    IF keys = << >> THEN dict
    ELSE SearchNeedles(IF Head(keys) \in words THEN CounterAdd(dict, Head(keys), 1) ELSE dict,
                       Tail(keys), words)

\* lines 294-304: one iteration of the inverse search
InverseStep ==
    /\ pc = "inverse"
    /\ i <= Len(no_examples_articles_as_sets)
    /\ LET words == no_examples_articles_as_sets[i]
           we_found_something == \E k \in 1..Len(needles) : needles[k] \in words
       IN  /\ from_inverse_search' = SearchNeedles(from_inverse_search, needles, words)
           /\ articles_we_found_nothing' =
                 IF we_found_something THEN articles_we_found_nothing
                 ELSE Append(articles_we_found_nothing, words)
           /\ found' = Append(found, we_found_something)
    /\ i' = i + 1
    /\ UNCHANGED <<pc, pages, a_urls, articles, no_examples_articles, fnns, fnw_names_freq,
                   ranks, needles, no_examples_articles_as_sets, ranks_with_inverse,
                   contrib, run, direct_tables>>
    /\ UNCHANGED <<linkVars, locVars>>

\* lines 306-314: the table is updated and ranked again
UpdateAndRank ==
    /\ pc = "inverse"
    /\ i > Len(no_examples_articles_as_sets)
    /\ fnw_names_freq' = CounterUpdate(fnw_names_freq, from_inverse_search)
    /\ ranks_with_inverse' = most_common(fnw_names_freq', TopK)
    /\ pc' = "done"
    /\ UNCHANGED <<pages, a_urls, articles, i, no_examples_articles, fnns, ranks, needles,
                   no_examples_articles_as_sets, from_inverse_search,
                   articles_we_found_nothing, contrib, found, run, direct_tables>>
    /\ UNCHANGED <<linkVars, locVars>>

\* main() is run again: both cache files exist, so lines 243-253 are skipped
\* and the same articles are loaded
Rerun ==
    /\ pc = "done"
    /\ run = 1
    /\ run' = 2
    /\ pc' = "direct" /\ i' = 1
    /\ no_examples_articles' = << >> /\ fnns' = << >>
    /\ contrib' = << >> /\ found' = << >>
    /\ fnw_names_freq' = << >> /\ ranks' = << >> /\ needles' = << >>
    /\ no_examples_articles_as_sets' = << >> /\ from_inverse_search' = << >>
    /\ articles_we_found_nothing' = << >> /\ ranks_with_inverse' = << >>
    /\ UNCHANGED <<pages, a_urls, articles, direct_tables>>
    /\ UNCHANGED <<linkVars, locVars>>

MainNext == Download \/ LoadArticles \/ DirectStep \/ CountAndRank
            \/ InverseStep \/ UpdateAndRank \/ Rerun

----------------------------------------------------------------------------
(* Article._filter_link on any anchor that carries an href *)

LinkTexts ==
    { << >>, <<" "," ">>, <<"p","r","o","n","e","w","s",".","g","r">>, <<" ","p","r","o","n","e","w","s",".","g","r","\n">>, <<"π","η","γ","ή">>, <<"ή">>, <<"ε","δ","ώ">>,
      <<"Ε","Δ","Ω">>, <<"h","e","r","e">>, <<"c","l","i","c","k"," ","h","e","r","e">>, <<"1">>, <<"2">>, <<"3">>, <<"4">>, <<"5">>,
      <<"1","2",".","g","r">>, <<",","b">>, <<"#","b">>, <<"f","a","c","e","b","o","o","k">>, <<"F","a","c","e","b","o","o","k"," ","p","a","g","e">>, <<"t","w","i","t","t","e","r">>,
      <<"T","w","i","t","t","e","r">>, <<"t","w","i","t","t","e","r",".","c","o","m">>, <<"Y","o","u","T","u","b","e">>, <<"y","o","u","t","u","b","e">>, <<"Y","o","u","t","u","b","e">>,
      <<"b",".","g","r">> }

LinkHrefs ==
    { <<"h","t","t","p","s",":","/","/","k","a","t","o","h","i","k","a",".","g","r","/","s","o","m","e","/","a","r","t","i","c","l","e">>, <<"h","t","t","p",":","/","/","b",".","g","r">>, <<"h","t","t","p",":","/","/","b",".","g","r","/">>,
      <<"/","/","b",".","g","r","/","x">>, <<"/","s","o","m","e","/","a","r","t","i","c","l","e">>, <<"b",".","g","r","/","x">>, <<"x">>, << >>, <<"h","t","t","p",":","/","/","/","x">>,
      <<"h","t","t","p","s",":","/","/","a","r","c","h","i","v","e",".","o","r","g","/","w","e","b","/","x">>, <<"h","t","t","p","s",":","/","/","a","r","c","h","i","v","e",".","i","s","/","x">>,
      <<"h","t","t","p",":","/","/","w","e","b",".","a","r","c","h","i","v","e",".","o","r","g","/","h","t","t","p",":","/","/","b",".","g","r","/">>, <<"h","t","t","p","s",":","/","/","p","e","r","m","a",".","c","c","/","x">>,
      <<"h","t","t","p","s",":","/","/","w","w","w",".","h","e","a","l","t","h",".","g","o","v","/","x">>, <<"h","t","t","p","s",":","/","/","w","w","w",".","e","l","l","i","n","i","k","a","h","o","a","x","e","s",".","g","r","/","a">>,
      <<"h","t","t","p",":","/","/","b","i","t",".","l","y","/","x">>, <<"h","t","t","p","s",":","/","/","w","w","w",".","f","a","c","e","b","o","o","k",".","c","o","m","/","b">>,
      <<"h","t","t","p","s",":","/","/","t","w","i","t","t","e","r",".","c","o","m","/","b">>, <<"h","t","t","p","s",":","/","/","w","w","w",".","y","o","u","t","u","b","e",".","c","o","m","/","b">> }

LinkInputs ==
    {Anchor(string, href) : string \in LinkTexts \cup {None}, href \in LinkHrefs}

LinkIdle ==
    /\ lk_pc = "idle" /\ lk_link = Anchor(None, << >>)
    /\ lk_check_href = FALSE /\ lk_token = None

LinkInit ==
    /\ lk_pc = "start" /\ lk_link \in LinkInputs
    /\ lk_check_href = FALSE /\ lk_token = None

\* lines 95-115: lk_pc tells whether line 100 was reached, and then
\* lk_check_href is the value of check_href
FilterLink ==
    /\ lk_pc = "start"
    /\ lk_token' = filter_link(lk_link)
    /\ IF lk_link.string = None \/ lk_link.string = << >>
       THEN lk_pc' = "no data" /\ UNCHANGED lk_check_href
       ELSE /\ lk_pc' = "classified"
            /\ lk_check_href' = should_check_href_instead_of_data(Strip(lk_link.string))
    /\ UNCHANGED lk_link
    /\ UNCHANGED <<mainVars, locVars>>

LinkNext == FilterLink


----------------------------------------------------------------------------
(* Article._focus_on_article on any raw document *)

ElementNames == { <<"d","i","v">>, <<"a","r","t","i","c","l","e">> }

ElementIds ==
    { None, <<"p","o","s","t","-","1">>, <<"p","o","s","t","-">>, <<"p","o","s","t">>, <<"c","o","m","p","o","s","t">>, <<"p","o","s","t","s">>, <<"p","o","s","-","t">>,
      <<"m","a","i","n">>, <<"P","o","s","t","-","1">> }

RawElements == {Element(name, id, << >>) : name \in ElementNames, id \in ElementIds}

RawInputs == UNION {[1..n -> RawElements] : n \in 0..MaxElems}

LocIdle == loc_pc = "idle" /\ loc_raw = << >> /\ loc_article = NoTag

LocInit == loc_pc = "start" /\ loc_raw \in RawInputs /\ loc_article = NoTag

\* line 52: article = Article._focus_on_article(raw)
Focus ==
    /\ loc_pc = "start"
    /\ loc_article' = focus_on_article(loc_raw)
    /\ loc_pc' = "focused"
    /\ UNCHANGED loc_raw
    /\ UNCHANGED <<mainVars, linkVars>>

LocNext == Focus

----------------------------------------------------------------------------
(* Specifications *)

Init == MainInit /\ LinkIdle /\ LocIdle

Next == MainNext

\* main()
Spec == Init /\ [][Next]_vars

InitLink == MainIdle /\ LinkInit /\ LocIdle

SpecLink == InitLink /\ [][LinkNext]_vars

\* Article._focus_on_article
InitLocate == MainIdle /\ LinkIdle /\ LocInit

SpecLocate == InitLocate /\ [][LocNext]_vars

----------------------------------------------------------------------------
(* What the claims speak of *)

\* main() has finished its direct pass and fnw_names_freq is still its table
AfterDirect == pc = "inverse"

\* the names of a ranking or of a table
NamesOf(c) == Range(Keys(c))

\* how often x occurs in the list
Occurrences(list, x) == Cardinality({k \in 1..Len(list) : list[k] = x})

\* the canonical names of the tokens article k appended to fnns
CanonicalNames(k) == Range(merge_similar_fnns(contrib[k]))

\* the visible text of an article: the text nodes of its body, in order
VisibleText(self) ==
    Concat([k \in 1..Len(self.bs_source.kids) |->
               IF IsText(self.bs_source.kids[k]) THEN self.bs_source.kids[k].s
               ELSE ParaText(self.bs_source.kids[k])])

\* the whitespace-delimited tokens of s: its maximal runs without whitespace
WhitespaceTokens(s) ==
    {SubSeq(s, a, b) : <<a, b>> \in
        {ab \in (1..Len(s)) \X (1..Len(s)) :
            /\ ab[1] <= ab[2]
            /\ \A p \in ab[1]..ab[2] : s[p] \notin Whitespace
            /\ ab[1] = 1 \/ s[ab[1] - 1] \in Whitespace
            /\ ab[2] = Len(s) \/ s[ab[2] + 1] \in Whitespace}}

VisibleTokens(self) == WhitespaceTokens(VisibleText(self))

\* the no-evidence articles the inverse pass has scanned so far
Scanned == 1..Len(found)

----------------------------------------------------------------------------
\* C1: in the direct pass every article with evidence paragraphs adds 0 or 1
\* to the count of a canonical name: after the direct pass the count of every
\* name is the number of articles whose canonical names include it.
C1_ArticleAddsAtMostOne ==
    AfterDirect =>
        \A n \in NamesOf(fnw_names_freq) :
            CountOf(fnw_names_freq, n)
                = Cardinality({k \in 1..Len(contrib) : n \in CanonicalNames(k)})

\* C2: a raw document without an article body does not abort the run: its
\* article is built with zero evidence paragraphs and the direct pass puts it
\* in the no-evidence list.
C2_MissingBodyIsNotFatal ==
    /\ pc # "crashed"
    /\ \A k \in 1..Len(pages) :
          focus_on_article(pages[k]) = NoTag =>
              /\ k <= Len(articles)
              /\ Len(articles[k].examples) = 0
              /\ pc \in {"inverse", "done"} => articles[k] \in Range(no_examples_articles)

\* C3: in the inverse pass a no-evidence article is resolved exactly when a
\* known name is a whitespace-delimited token of its visible text, every such
\* name then gains exactly 1, and the articles that are not resolved are the
\* ones in the unresolved list.
C3_InverseMatchesVisibleTokens ==
    pc \in {"inverse", "done"} =>
        /\ \A k \in Scanned :
              found[k] = (\E n \in Range(needles) :
                             n \in VisibleTokens(no_examples_articles[k]))
        /\ \A n \in Range(needles) :
              CountOf(from_inverse_search, n)
                  = Cardinality({k \in Scanned :
                                    n \in VisibleTokens(no_examples_articles[k])})
        /\ Len(articles_we_found_nothing) = Cardinality({k \in Scanned : ~found[k]})

\* C4, as claimed: only the top-K names of the direct pass are search keys; a
\* name ranked below K is never incremented by the inverse pass and never
\* resolves an article.
C4_OnlyTopKAreSearched ==
    pc \in {"inverse", "done"} =>
        /\ NamesOf(from_inverse_search) \subseteq NamesOf(ranks)
        /\ \A k \in Scanned :
              found[k] => \E n \in NamesOf(ranks) : n \in no_examples_articles_as_sets[k]

\* C4, amended: the search keys are all the names of the table of the direct
\* pass, whatever their rank: each of them, and no other name, gains 1 for
\* every scanned article whose words include it, and an article is resolved
\* exactly when its words include one of them.
C4_AllDirectNamesAreSearched ==
    pc \in {"inverse", "done"} =>
        LET direct == NamesOf(direct_tables[run])
        IN  /\ NamesOf(from_inverse_search) \subseteq direct
            /\ \A n \in direct :
                  CountOf(from_inverse_search, n)
                      = Cardinality({k \in Scanned : n \in no_examples_articles_as_sets[k]})
            /\ \A k \in Scanned :
                  found[k] = (\E n \in direct : n \in no_examples_articles_as_sets[k])

\* a name ranked below K by the direct pass was incremented by the inverse pass
C4_Witness ==
    /\ pc = "done"
    /\ \E n \in NamesOf(from_inverse_search) : n \notin NamesOf(ranks)

\* the piece of href after its second "/", up to the next "/" or the end;
\* None when href has fewer than two "/"
ThirdPiece(href) ==
    LET slashes == {p \in 1..Len(href) : href[p] = "/"}
    IN  IF Cardinality(slashes) < 2 THEN None
        ELSE LET second == CHOOSE p \in slashes :
                               Cardinality({q \in slashes : q < p}) = 1
                 stop == IF \E p \in slashes : p > second
                         THEN CHOOSE p \in slashes :
                                  p > second /\ \A q \in slashes : q > second => p <= q
                         ELSE Len(href) + 1
             IN  SubSeq(href, second + 1, stop - 1)

\* C5: an anchor whose href is checked yields nothing when the href holds a
\* denylist substring, else the element at index 2 of the href split on "/",
\* and nothing when the split has fewer than 3 elements.
C5_HrefBranch ==
    (lk_pc = "classified" /\ lk_check_href) =>
        /\ lk_token = IF \E needle \in is_irrelevant_url_needles :
                             Contains(lk_link.href, needle)
                      THEN None
                      ELSE ThirdPiece(lk_link.href)
        /\ (lk_link.string = <<"1">> /\ Contains(lk_link.href, <<"a","r","c","h","i","v","e",".","o","r","g">>))
              => lk_token = None
        /\ (lk_link.string = <<"π","η","γ","ή">> /\ lk_link.href = <<"h","t","t","p","s",":","/","/","k","a","t","o","h","i","k","a",".","g","r","/","s","o","m","e","/","a","r","t","i","c","l","e">>)
              => lk_token = <<"k","a","t","o","h","i","k","a",".","g","r">>

\* the citation label "πηγή" over https://katohika.gr/some/article has been
\* classified as katohika.gr
C5_Witness ==
    /\ lk_pc = "classified" /\ lk_check_href
    /\ lk_link = Anchor(<<"π","η","γ","ή">>, <<"h","t","t","p","s",":","/","/","k","a","t","o","h","i","k","a",".","g","r","/","s","o","m","e","/","a","r","t","i","c","l","e">>)
    /\ lk_token = <<"k","a","t","o","h","i","k","a",".","g","r">>

\* r lists the n items of table c with the highest counts, highest first, and
\* items of equal count in the order of c
IsRanking(r, c, n) ==
    LET at(item) == CHOOSE k \in 1..Len(c) : c[k] = item
    IN  /\ Len(r) = Min(n, Len(c))
        /\ \A j \in 1..Len(r) : r[j] \in Range(c)
        /\ \A j, k \in 1..Len(r) :
              j < k => \/ r[j][2] > r[k][2]
                       \/ r[j][2] = r[k][2] /\ at(r[j]) < at(r[k])
        /\ \A item \in Range(c) \ Range(r) :
              \A j \in 1..Len(r) :
                  \/ r[j][2] > item[2]
                  \/ r[j][2] = item[2] /\ at(r[j]) < at(item)

RECURSIVE FirstOccurrences(_)
\* the names of the list in the order of their first occurrence
FirstOccurrences(list) ==
    IF list = << >> THEN << >>
    ELSE LET front == FirstOccurrences(SubSeq(list, 1, Len(list) - 1))
         IN  IF list[Len(list)] \in Range(front) THEN front
             ELSE Append(front, list[Len(list)])

\* C6: each reported ranking is the table sorted by descending count, equal
\* counts in discovery order, cut to the top K; the table keeps the names in
\* discovery order through the inverse pass.
C6_RankingIsStableTopK ==
    /\ pc = "inverse" =>
          /\ IsRanking(ranks, fnw_names_freq, TopK)
          /\ Keys(fnw_names_freq) = FirstOccurrences(fnns)
    /\ pc = "done" =>
          /\ IsRanking(ranks, direct_tables[run], TopK)
          /\ IsRanking(ranks_with_inverse, fnw_names_freq, TopK)
          /\ Keys(fnw_names_freq) = FirstOccurrences(fnns)

\* the inverse pass changed the ranking of a table of more than K names, and
\* the cutoff falls between two names of equal count
C6_Witness ==
    /\ pc = "done"
    /\ Len(fnw_names_freq) > TopK
    /\ ranks_with_inverse # ranks
    /\ \E item \in Range(fnw_names_freq) \ Range(ranks_with_inverse) :
          item[2] = ranks_with_inverse[Len(ranks_with_inverse)][2]

\* the articles the direct pass has gone through
Processed == IF pc = "direct" THEN 1..(i - 1) ELSE 1..Len(articles)

NoEvidence(self) == Len(self.examples) = 0

\* C7: the articles with an evidence paragraph and the no-evidence list
\* partition the corpus: an article without evidence paragraphs appends
\* nothing in the direct pass and is in the no-evidence list, an article with
\* one is not in it, and the inverse pass scans the no-evidence list only.
C7_EvidencePartition ==
    pc \in {"direct", "inverse", "done"} =>
        /\ no_examples_articles
              = SelectSeq([k \in Processed |-> articles[k]], NoEvidence)
        /\ Len(contrib) = Cardinality(Processed)
        /\ \A k \in Processed : NoEvidence(articles[k]) => contrib[k] = << >>
        /\ \A k \in Processed :
              ~NoEvidence(articles[k])
                  => Range(contrib[k]) = unique_fnns_in_examples(articles[k])
        /\ Len(fnns) = Len(Concat(contrib))
        /\ pc # "direct" =>
              /\ Len(no_examples_articles_as_sets) = Len(no_examples_articles)
              /\ Len(found) <= Len(no_examples_articles)
              /\ Len(articles_we_found_nothing) <= Len(found)

\* a run has ended with one article whose evidence paragraph links only
\* denylisted or unparsable targets and one article without evidence
C7_Witness ==
    /\ pc = "done"
    /\ Len(no_examples_articles) = 1
    /\ \E k \in 1..Len(articles) :
          /\ Len(articles[k].examples) >= 1
          /\ contrib[k] = << >>
          /\ articles[k] \notin Range(no_examples_articles)

\* the names of a table with their counts
CountsOf(c) == [n \in NamesOf(c) |-> CountOf(c, n)]

\* C8: the direct passes of two runs over the same articles give the same
\* names with the same counts.
C8_DirectPassIdempotent ==
    Len(direct_tables) = 2 => CountsOf(direct_tables[1]) = CountsOf(direct_tables[2])

\* two runs iterated the token sets in different orders
C8_Witness ==
    /\ Len(direct_tables) = 2
    /\ Keys(direct_tables[1]) # Keys(direct_tables[2])

\* the Greek letters with a tonos, which [α-ωΑ-Ω] leaves out
GreekAccented == { "ά","έ","ή","ί","ό","ύ","ώ","Ά","Έ","Ή","Ί","Ό","Ύ","Ώ" }

GreekLetters == GreekClass \cup GreekAccented

NoisePrefixes ==
    { <<"1">>, <<"2">>, <<"3">>, <<"4">>, <<",">>, <<"#">>, <<"f","a","c","e","b","o","o","k">>, <<"F","a","c","e","b","o","o","k">>,
      <<"t","w","i","t","t","e","r">>, <<"T","w","i","t","t","e","r">>, <<"y","o","u","t","u","b","e">>, <<"Y","o","u","T","u","b","e">> }

\* C9: for an anchor with visible text, check_href is true exactly when the
\* stripped text holds a Greek letter or a space or starts with a noise
\* prefix, and when it is false the token is the stripped text.
C9_CheckHrefDecision ==
    lk_pc = "classified" =>
        LET text == Strip(lk_link.string)
        IN  /\ lk_check_href =
                  ( \/ \E k \in 1..Len(text) : text[k] \in GreekLetters \cup {" "}
                    \/ \E prefix \in NoisePrefixes : StartsWith(text, prefix) )
            /\ ~lk_check_href => lk_token = text

\* the first element of raw whose id starts with "post-", NoTag without one
FirstWithPostPrefix(raw) ==
    LET hit(k) == raw[k].id # None /\ StartsWith(raw[k].id, <<"p","o","s","t","-">>)
    IN  IF \E k \in 1..Len(raw) : hit(k)
        THEN raw[CHOOSE k \in 1..Len(raw) : hit(k) /\ \A j \in 1..(k - 1) : ~hit(j)]
        ELSE NoTag

\* C10: the article body is the first element whose id starts with "post-".
C10_FirstPostPrefixElement ==
    loc_pc = "focused" => loc_article = FirstWithPostPrefix(loc_raw)

====
